---- MODULE Spec2Model ----
(***************************************************************************)
(* Model of the resumable translation pipeline: the checkpoint store       *)
(* (checkpoint_manager.py), the translation client and terminology engine  *)
(* (translation_engine.py) and the orchestrator (translator.py).           *)
(*                                                                         *)
(* A text is a sequence of characters (one-character strings, or one       *)
(* opaque token standing for a fixed piece of text).  A cell of the        *)
(* dataset is a text or the float NaN that pandas uses for a missing cell. *)
(* Storage is reliable apart from a process crash: the OSError branches of *)
(* the writers are not exercised, the ones of the reader are.              *)
(***************************************************************************)
EXTENDS Integers, Sequences, FiniteSets, TLC

\* ------------------------------------------------------------------ bounds
NRows == 2                \* rows of the input dataset
MaxRuns == 2              \* invocations of process_translation in a behaviour
AutoSaveInterval == 2     \* config.translation.auto_save_interval of the run

\* ------------------------------------------------------- program constants
max_retries == 3          \* TranslationConfig.max_retries
delay == 1                \* TranslationConfig.delay, the unit of the sleeps

Rows == 0 .. (NRows - 1)

\* ------------------------------------------------------------------- texts
\* Stand-ins for six ideographs of the range U+4E00..U+9FFF.
CJKChars == {"ren", "gong", "zhi", "neng", "hen", "qiang"}
\* An ideograph outside that range (CJK Extension A).
RareIdeographs == {"U+3400"}
LatinChars == {"a", "c", "i", "n"}
Whitespace == {" "}

\* \w of a str pattern: letters of any script, digits, underscore.
IsWordChar(c) == c \in CJKChars \cup RareIdeographs \cup LatinChars

\* The float NaN of a missing cell: no text equals it.
NaN == <<"NaN">>

\* str(cell)
StrOf(cell) == IF cell = NaN THEN <<"n", "a", "n">> ELSE cell

RECURSIVE LStrip(_)
LStrip(s) ==
    IF s # <<>> /\ Head(s) \in Whitespace THEN LStrip(Tail(s)) ELSE s

RECURSIVE RStrip(_)
RStrip(s) ==
    IF s # <<>> /\ s[Len(s)] \in Whitespace
    THEN RStrip(SubSeq(s, 1, Len(s) - 1))
    ELSE s

\* str.strip()
Strip(s) == RStrip(LStrip(s))

\* df[target_col].isna() | (df[target_col] == '') | (df[target_col] == 'nan')
EmptyMask(cell) == cell = NaN \/ cell = <<>> \/ cell = <<"n", "a", "n">>

\* not re.search(r'[\u4e00-\u9fff]', text), for source language zh
IsFullyTranslated(text, source_lang) ==
    IF source_lang = "zh"
    THEN ~ \E p \in 1 .. Len(text) : text[p] \in CJKChars
    ELSE FALSE

\* ------------------------------------------------------ terminology engine
\* A dict is a sequence of [key, value] entries with distinct keys, in
\* insertion order.
Keys(d) == [n \in 1 .. Len(d) |-> d[n].key]

HasKey(d, k) == \E n \in 1 .. Len(d) : d[n].key = k

Lookup(d, k) == d[CHOOSE n \in 1 .. Len(d) : d[n].key = k].value

\* d[k] = v
DictSet(d, k, v) ==
    IF HasKey(d, k)
    THEN [n \in 1 .. Len(d) |-> IF d[n].key = k THEN [key |-> k, value |-> v] ELSE d[n]]
    ELSE Append(d, [key |-> k, value |-> v])

\* {v: k for k, v in self.terminology_dict.items()}
RECURSIVE ReverseInto(_, _)
ReverseInto(acc, d) ==
    IF d = <<>> THEN acc
    ELSE ReverseInto(DictSet(acc, Head(d).value, Head(d).key), Tail(d))

ReverseDict(d) == ReverseInto(<<>>, d)

\* One step of the stable sort: x goes behind every key at least as long.
RECURSIVE InsertByLen(_, _)
InsertByLen(sorted, x) ==
    IF sorted = <<>> THEN <<x>>
    ELSE IF Len(Head(sorted)) >= Len(x)
         THEN <<Head(sorted)>> \o InsertByLen(Tail(sorted), x)
         ELSE <<x>> \o sorted

RECURSIVE SortInto(_, _)
SortInto(acc, ks) ==
    IF ks = <<>> THEN acc ELSE SortInto(InsertByLen(acc, Head(ks)), Tail(ks))

\* sorted(source_dict.keys(), key=len, reverse=True)
SortedTerms(d) == SortInto(<<>>, Keys(d))

\* 'zh_to_en' if source_lang == 'zh' and target_lang == 'en' else 'en_to_zh'
Direction(source_lang, target_lang) ==
    IF source_lang = "zh" /\ target_lang = "en" THEN "zh_to_en" ELSE "en_to_zh"

\* \b at offset p of text (between text[p] and text[p+1])
WordBoundary(text, p) ==
    LET before == p >= 1 /\ IsWordChar(text[p])
        after == p < Len(text) /\ IsWordChar(text[p + 1])
    IN before # after

\* r'\b' + re.escape(term) + r'\b' matches text at offset p
MatchAt(term, text, p) ==
    /\ p + Len(term) <= Len(text)
    /\ SubSeq(text, p + 1, p + Len(term)) = term
    /\ WordBoundary(text, p)
    /\ WordBoundary(text, p + Len(term))

\* re.search(pattern, result_text)
Search(term, text) == \E p \in 0 .. Len(text) : MatchAt(term, text, p)

\* re.sub(pattern, target_term, result_text), scanning from offset p
RECURSIVE SubFrom(_, _, _, _)
SubFrom(term, repl, text, p) ==
    IF p >= Len(text) THEN <<>>
    ELSE IF MatchAt(term, text, p)
         THEN repl \o SubFrom(term, repl, text, p + Len(term))
         ELSE <<text[p + 1]>> \o SubFrom(term, repl, text, p + 1)

Sub(term, repl, text) == SubFrom(term, repl, text, 0)

\* The loop over self.sorted_terms_cache[direction]; acc is
\* (result_text, replaced_terms).
RECURSIVE ReplaceLoop(_, _, _)
ReplaceLoop(terms, source_dict, acc) ==
    IF terms = <<>> THEN acc
    ELSE LET term == Head(terms) IN
         IF HasKey(source_dict, term) /\ Search(term, acc.text)
         THEN ReplaceLoop(Tail(terms), source_dict,
                  [text |-> Sub(term, Lookup(source_dict, term), acc.text),
                   replaced |-> Append(acc.replaced,
                                   [term |-> term, target |-> Lookup(source_dict, term)])])
         ELSE ReplaceLoop(Tail(terms), source_dict, acc)

\* replace_terms_in_text without the cache: the result computed for a text
ComputeReplacement(dict, text, source_lang, target_lang) ==
    LET source_dict == IF Direction(source_lang, target_lang) = "zh_to_en"
                       THEN dict ELSE ReverseDict(dict)
    IN ReplaceLoop(SortedTerms(source_dict), source_dict,
                   [text |-> text, replaced |-> <<>>])

CacheKey(text, source_lang, target_lang) ==
    [text |-> text, source_lang |-> source_lang, target_lang |-> target_lang]

CacheHas(cache, k) == \E e \in cache : e.key = k

\* CacheGet for a cache that keeps the rewritten text only.
CacheGet_TextOnly(cache, k) ==
    [text |-> (CHOOSE e \in cache : e.key = k).result.text, replaced |-> <<>>]

CacheGet(cache, k) == (CHOOSE e \in cache : e.key = k).result

\* replace_terms_in_text: the value returned
ReplaceTermsInText(dict, cache, text, source_lang, target_lang) ==
    IF dict = <<>> THEN [text |-> text, replaced |-> <<>>]
    ELSE IF CacheHas(cache, CacheKey(text, source_lang, target_lang))
         THEN CacheGet(cache, CacheKey(text, source_lang, target_lang))
         ELSE ComputeReplacement(dict, text, source_lang, target_lang)

\* replace_terms_in_text: self.replacement_cache afterwards
CacheAfterReplace(dict, cache, text, source_lang, target_lang) ==
    IF dict = <<>> \/ CacheHas(cache, CacheKey(text, source_lang, target_lang))
    THEN cache
    ELSE cache \cup {[key |-> CacheKey(text, source_lang, target_lang),
                      result |-> ComputeReplacement(dict, text, source_lang, target_lang)]}

\* The terminology file of the model: one term, zhi-neng -> ai.
TermPairs == << [key |-> <<"zhi", "neng">>, value |-> <<"a", "i">>] >>

\* Rows of terminology files (first column, second column).
TermRowsAI ==
    << [key |-> <<"ren", "gong", "zhi", "neng">>, value |-> <<"a", "i">>],
       [key |-> <<"neng">>, value |-> <<"c", "a", "n">>] >>

TermRowsPhrase ==
    << [key |-> <<"neng">>, value |-> <<"a">>],
       [key |-> <<" ", "zhi", "neng">>, value |-> <<"a", " ", "i">>],
       [key |-> <<"hen">>, value |-> NaN] >>

TermRowsInvalid == << [key |-> <<"hen">>, value |-> <<>>] >>

TermFiles == { TermRowsAI, TermRowsPhrase, TermRowsInvalid, TermPairs }

\* Lines 114-118 of translation_engine.py: both cells hold a text.
ValidMask(row) == ~ EmptyMask(row.key) /\ ~ EmptyMask(row.value)

\* Lines 120-124: dict(zip(...)) over the valid rows, cells stripped.
RECURSIVE ZipInto(_, _)
ZipInto(acc, rows) ==
    IF rows = <<>> THEN acc
    ELSE ZipInto(IF ValidMask(Head(rows))
                 THEN DictSet(acc, Strip(StrOf(Head(rows).key)),
                              Strip(StrOf(Head(rows).value)))
                 ELSE acc,
                 Tail(rows))

\* self.terminology_dict after load_terminology read the rows
LoadTerminologyDict(rows) == ZipInto(<<>>, rows)

\* ----------------------------------------------------------------- dataset
\* A DataFrame is a function from row index to a record of cells, one field
\* per column; its column names are kept beside it, in order.
ColumnLayouts ==
    { <<"chinese", "english">>, <<"english", "chinese">>, <<"chinese">> }

\* any(keyword in columns[0].lower() for keyword in ['chinese', 'zh', ...])
HasZhKeyword(name) == name = "chinese"

\* any(keyword in columns[0].lower() for keyword in ['english', 'en'])
HasEnKeyword(name) == name = "english"

\* detect_languages
DetectLanguages(cols) ==
    IF HasZhKeyword(cols[1])
    THEN [source_lang |-> "zh", target_lang |-> "en",
          source_col |-> cols[1], target_col |-> cols[2]]
    ELSE IF HasEnKeyword(cols[1])
         THEN [source_lang |-> "en", target_lang |-> "zh",
               source_col |-> cols[2], target_col |-> cols[1]]
         ELSE [source_lang |-> "zh", target_lang |-> "en",
               source_col |-> cols[1], target_col |-> cols[2]]

\* df.to_dict(): {column: {index: value}}
ToDict(frame) ==
    [c \in {"chinese", "english"} |-> [r \in DOMAIN frame |-> frame[r][c]]]

\* pd.DataFrame.from_dict(d)
FromDict(d) ==
    [r \in DOMAIN d["chinese"] |-> [c \in DOMAIN d |-> d[c][r]]]

\* df.loc[idx, col] = value
SetCell(frame, idx, col, value) ==
    [frame EXCEPT ![idx] = [@ EXCEPT ![col] = value]]

\* Cells the source column of the input file holds: a missing cell, a cell
\* of white space, a text that is a dictionary term, a text that is not, a
\* text without an ideograph.
SourceCells == { NaN, <<" ">>, <<"zhi", "neng">>, <<"hen">>, <<"c">> }

\* Rows of the input file: the target cell is missing, or the row came
\* translated (its source cell is then never read).
InputRows ==
    { [chinese |-> c, english |-> NaN] : c \in SourceCells } \cup
    { [chinese |-> <<"hen">>, english |-> <<"a">>] }

\* Rows of an input file with the columns cols.
InputRowsOf(cols) ==
    IF Len(cols) < 2
    THEN { [chinese |-> c] : c \in { NaN, <<"hen">> } }
    ELSE InputRows

\* Terminology files a run can be given: none, or a sheet with its number
\* of columns (df.shape[1]) and its rows.
NoTermFile == [shape |-> 0, rows |-> <<>>]

TermSheet(rows) == [shape |-> 2, rows |-> rows]

OneColumnSheet == [shape |-> 1, rows |-> <<>>]

RunTermFiles ==
    { NoTermFile, TermSheet(TermPairs), TermSheet(TermRowsInvalid),
      OneColumnSheet }

\* setup_terminology: the exception load_terminology raises (lines 108-109
\* of translation_engine.py), or "none"
SetupTerminologyError(file) ==
    IF file # NoTermFile /\ file.shape < 2 THEN "ValueError" ELSE "none"

\* -------------------------------------------------------- checkpoint store
None == [type |-> "none"]

EmptyDict == [type |-> "dict", dict |-> <<>>]

\* Snapshot with the failed rows left out of the dict.
Snapshot_FailedDropped(current_idx, total_rows, frame, completed, failed, stats) ==
    [type |-> "dict",
     dict |-> [timestamp |-> "now",
               current_index |-> current_idx,
               total_rows |-> total_rows,
               completed_indices |-> completed,
               failed_indices |-> <<>>,
               statistics |-> stats,
               dataframe |-> ToDict(frame),
               input_file |-> "input.xlsx",
               output_file |-> "input_translated.xlsx"]]

\* The dict save_checkpoint pickles.  timestamp is datetime.now(), whose
\* value no operation depends on.
Snapshot(current_idx, total_rows, frame, completed, failed, stats) ==
    [type |-> "dict",
     dict |-> [timestamp |-> "now",
               current_index |-> current_idx,
               total_rows |-> total_rows,
               completed_indices |-> completed,
               failed_indices |-> failed,
               statistics |-> stats,
               dataframe |-> ToDict(frame),
               input_file |-> "input.xlsx",
               output_file |-> "input_translated.xlsx"]]

\* The checkpoint file on disk.  state is "absent", or what the bytes are:
\* "pickle" (a complete pickle of value), "empty" (zero length),
\* "truncated_eof" and "truncated" (a pickle cut short, at a point where
\* the unpickler runs out of input or finds the frame short), "garbage"
\* (not a pickle), "unreadable" (open() fails).
AbsentFile == [state |-> "absent", value |-> None]

Pickled(v) == [state |-> "pickle", value |-> v]

Damaged(kind) == [state |-> kind, value |-> None]

\* os.path.exists(self.checkpoint_file)
HasCheckpoint(file) == file.state # "absent"

\* open(self.checkpoint_file, 'rb') and pickle.load(f): the exception raised
PickleLoadError(file) ==
    CASE file.state = "unreadable" -> "OSError"
      [] file.state \in {"empty", "truncated_eof"} -> "EOFError"
      [] file.state \in {"truncated", "garbage"} -> "UnpicklingError"
      [] OTHER -> "none"

RequiredKeys == {"current_index", "total_rows", "completed_indices", "dataframe"}

\* _validate_checkpoint: the exception raised (key in checkpoint needs a
\* container)
ValidateError(v) == IF v.type = "int" THEN "TypeError" ELSE "none"

\* _validate_checkpoint
ValidateCheckpoint(v) ==
    /\ v.type = "dict"
    /\ \A key \in RequiredKeys : key \in DOMAIN v.dict

\* except (OSError, pickle.PickleError, KeyError)
CaughtByLoad == {"OSError", "UnpicklingError", "KeyError"}

\* load_checkpoint: [exc |-> the exception that leaves it, or "none",
\*                   checkpoint |-> the value returned]
LoadCheckpoint(file) ==
    IF ~ HasCheckpoint(file) THEN [exc |-> "none", checkpoint |-> None]
    ELSE IF PickleLoadError(file) \in CaughtByLoad
         THEN [exc |-> "none", checkpoint |-> None]
    ELSE IF PickleLoadError(file) # "none"
         THEN [exc |-> PickleLoadError(file), checkpoint |-> None]
    ELSE IF ValidateError(file.value) # "none"
         THEN [exc |-> ValidateError(file.value), checkpoint |-> None]
    ELSE IF ValidateCheckpoint(file.value)
         THEN [exc |-> "none", checkpoint |-> file.value]
         ELSE [exc |-> "none", checkpoint |-> None]

\* checkpoint.get(key, default)
Get(cp, key, default) == IF key \in DOMAIN cp.dict THEN cp.dict[key] ELSE default

\* get_resume_info: the exception raised by completed/total*100
ResumeInfoError(cp) ==
    IF Get(cp, "total_rows", 0) = 0 THEN "ZeroDivisionError" ELSE "none"

\* get_resume_info: completed, total and the percentage in tenths
GetResumeInfo(cp) ==
    LET completed == Len(Get(cp, "completed_indices", <<>>))
        total == Get(cp, "total_rows", 0)
    IN [completed |-> completed, total |-> total,
        percent10 |-> (completed * 1000) \div total]

\* bool(checkpoint): None and {} are falsy
Truthy(cp) == cp.type = "dict" /\ DOMAIN cp.dict # {}

\* ------------------------------------------------------ translation client
\* What one call of client.chat.completions.create gives: an exception, or
\* a response whose extracted content is the text.
Responses ==
    { [exc |-> TRUE, text |-> <<>>] } \cup
    { [exc |-> FALSE, text |-> t] : t \in { <<>>, <<"<HTML>">>, <<"a">> } }

\* str.lower() of one character
Lower(c) == IF c = "<HTML>" THEN "<html>" ELSE c

\* _is_html_response: text.lower().startswith(('<!doctype html>', '<html'))
IsHtmlResponse(text) ==
    text # <<>> /\ Lower(Head(text)) \in {"<!doctype html>", "<html>"}

\* if result and not self._is_html_response(result)
ValidResult(text) == text # <<>> /\ ~ IsHtmlResponse(text)

\* The text translate_text returns when its loop runs out.
RetriesExceededText == << "[retries exceeded]" >>

\* ErrorMsg that leaves the cell empty.
ErrorMsg_Blank(e) == <<>>

\* f"[... {str(e)[:50]}]", the text written for a row whose call raised
ErrorMsg(e) == << "[failed: ", e, "]" >>

\* ------------------------------------------------------------------- state
VARIABLES
    columns,            \* column names of the input file
    input_df,           \* rows of the input file
    checkpoint_file,    \* the checkpoint file of this input
    output_file,        \* the output file
    pc,                 \* where the process is
    exception,          \* the exception that left process_translation
    terminology_engine, \* self.terminology_engine is not None
    terminology_dict,   \* TerminologyEngine.terminology_dict
    replacement_cache,  \* TerminologyEngine.replacement_cache
    checkpoint,         \* process_translation's checkpoint
    df,
    completed_indices,
    failed_indices,
    terminology_stats,
    rows_to_translate,
    i,                  \* loop index of _execute_translation, -1: not bound
    loc,                \* locals of the row in hand
    attempt,            \* translate_text's attempt
    save,               \* the save_checkpoint call in progress
    runs,               \* invocations of process_translation so far
    hist,               \* record of the run, for the properties
    last_saved,         \* arguments of the last save_checkpoint that wrote
    crash_site,         \* where the last crash hit
    engine_call,        \* the engines on their own: the call under test
    managers            \* CheckpointManager objects made on their own

vars == << columns, input_df, checkpoint_file, output_file, pc, exception,
           terminology_engine, terminology_dict, replacement_cache,
           checkpoint, df, completed_indices, failed_indices,
           terminology_stats, rows_to_translate, i, loc, attempt, save,
           runs, hist, last_saved, crash_site, engine_call, managers >>

NoOutput == [state |-> "absent", frame |-> <<>>]

NoLocals == [source_text |-> <<>>, processed_text |-> <<>>,
             replaced_terms |-> <<>>, translated_text |-> <<>>, e |-> "none"]

NoSave == [checkpoint |-> None, args |-> None, ret |-> "none"]

NoStats == [total_replacements |-> 0]

\* The requests of the translate_text call of the row in hand: how many
\* were sent, how many raised, and how the last one ended (the ones before
\* it failed: the call goes on to another request only after a failure).
NoCall == [attempts |-> 0, errors |-> 0, last |-> "none"]

NoHist == [substituted |-> {}, requested |-> {}, df_start |-> <<>>,
           call |-> NoCall, interrupted |-> FALSE, at_interrupt |-> None,
           handler_saves |-> 0, out_writes |-> 0, cleanups |-> 0,
           file_at_start |-> AbsentFile, file_before_save |-> AbsentFile,
           delays |-> {}, answer |-> "none", sleeps |-> <<>>,
           since_save |-> 0]

NoCrash == [in_save |-> FALSE, before |-> AbsentFile, new |-> None]

\* No call on the engines on their own is under test.  Otherwise: the
\* arguments, the number of replace_terms_in_text calls since the dictionary
\* was loaded, the value the last of them returned, and the value
\* is_fully_translated returned.
NoEngineCall == [text |-> <<>>, source_lang |-> "none", target_lang |-> "none",
                 calls |-> 0, result |-> None, fully |-> None]

Lang == DetectLanguages(columns)

NotRunning == pc \in {"idle", "returned", "raised", "crashed"}

\* The memory of a process that is not running.
MemoryCleared ==
    /\ terminology_engine' = FALSE
    /\ terminology_dict' = <<>>
    /\ replacement_cache' = {}
    /\ checkpoint' = None
    /\ df' = <<>>
    /\ completed_indices' = <<>>
    /\ failed_indices' = <<>>
    /\ terminology_stats' = NoStats
    /\ rows_to_translate' = <<>>
    /\ i' = -1
    /\ loc' = NoLocals
    /\ attempt' = 0
    /\ save' = NoSave

Init ==
    /\ columns \in ColumnLayouts
    /\ input_df \in [Rows -> InputRowsOf(columns)]
    /\ checkpoint_file = AbsentFile
    /\ output_file = NoOutput
    /\ pc = "idle"
    /\ exception = "none"
    /\ terminology_engine = FALSE
    /\ terminology_dict = <<>>
    /\ replacement_cache = {}
    /\ checkpoint = None
    /\ df = <<>>
    /\ completed_indices = <<>>
    /\ failed_indices = <<>>
    /\ terminology_stats = NoStats
    /\ rows_to_translate = <<>>
    /\ i = -1
    /\ loc = NoLocals
    /\ attempt = 0
    /\ save = NoSave
    /\ runs = 0
    /\ hist = NoHist
    /\ last_saved = None
    /\ crash_site = NoCrash
    /\ engine_call = NoEngineCall
    /\ managers = <<>>

\* ------------------------------------------------------ process_translation
\* The exception that leaves the resume check of lines 76-87, or "none".
ResumeCheckError(file) ==
    IF ~ HasCheckpoint(file) THEN "none"
    ELSE IF LoadCheckpoint(file).exc # "none" THEN LoadCheckpoint(file).exc
    ELSE ResumeInfoError(IF Truthy(LoadCheckpoint(file).checkpoint)
                         THEN LoadCheckpoint(file).checkpoint
                         ELSE EmptyDict)

\* checkpoint after lines 76-87, for the answer given at the prompt
ResumeCheck(file, answer) ==
    IF HasCheckpoint(file) /\ answer # "n"
    THEN LoadCheckpoint(file).checkpoint
    ELSE None

\* Lines 63-100: set up the terminology, look for a checkpoint, load the data.
\* terminology_file: the terminology file chosen, if any; answer: the reply
\* to the resume prompt.
ProcessTranslation(terminology_file, answer) ==
    /\ pc = "idle"
    /\ runs < MaxRuns
    /\ runs' = runs + 1
    /\ terminology_engine' = ( /\ terminology_file # NoTermFile
                               /\ SetupTerminologyError(terminology_file) = "none" )
    /\ terminology_dict' = IF terminology_engine'
                           THEN LoadTerminologyDict(terminology_file.rows)
                           ELSE <<>>
    /\ replacement_cache' = {}
    /\ rows_to_translate' = <<>>
    /\ i' = -1
    /\ loc' = NoLocals
    /\ attempt' = 0
    /\ save' = NoSave
    /\ crash_site' = NoCrash
    /\ hist' = [NoHist EXCEPT !.file_at_start = checkpoint_file,
                              !.answer = IF HasCheckpoint(checkpoint_file)
                                         THEN answer ELSE "none"]
    /\ IF SetupTerminologyError(terminology_file) # "none"
          \/ ResumeCheckError(checkpoint_file) # "none"
       THEN /\ pc' = "raised"
            /\ exception' =
                   IF SetupTerminologyError(terminology_file) # "none"
                   THEN SetupTerminologyError(terminology_file)
                   ELSE ResumeCheckError(checkpoint_file)
            /\ checkpoint' = None
            /\ df' = <<>>
            /\ completed_indices' = <<>>
            /\ failed_indices' = <<>>
            /\ terminology_stats' = NoStats
       ELSE LET cp == ResumeCheck(checkpoint_file, answer) IN
            /\ pc' = "validate"
            /\ exception' = "none"
            /\ checkpoint' = cp
            /\ IF Truthy(cp)
               THEN /\ df' = FromDict(cp.dict["dataframe"])
                    /\ completed_indices' = cp.dict["completed_indices"]
                    /\ failed_indices' = Get(cp, "failed_indices", <<>>)
                    /\ terminology_stats' = Get(cp, "statistics", NoStats)
               ELSE /\ df' = input_df
                    /\ completed_indices' = <<>>
                    /\ failed_indices' = <<>>
                    /\ terminology_stats' = NoStats
    /\ UNCHANGED << columns, input_df, checkpoint_file, output_file,
                    last_saved, engine_call, managers >>

InSeq(x, sq) == \E n \in 1 .. Len(sq) : sq[n] = x

\* df.index.tolist()
IndexList(frame) == [n \in 1 .. Cardinality(DOMAIN frame) |-> n - 1]

\* PendingRows without line 116: the completed rows are not taken out.
PendingRows_KeepCompleted(frame, target_col, completed) ==
    SelectSeq(IndexList(frame),
              LAMBDA idx : EmptyMask(frame[idx][target_col]))

\* PendingRows without lines 112-113: every row not completed is pending.
PendingRows_IgnoreTarget(frame, target_col, completed) ==
    SelectSeq(IndexList(frame), LAMBDA idx : ~ InSeq(idx, completed))

\* Lines 111-116: the rows whose target cell is empty, without the completed.
PendingRows(frame, target_col, completed) ==
    SelectSeq(IndexList(frame),
              LAMBDA idx : EmptyMask(frame[idx][target_col])
                           /\ ~ InSeq(idx, completed))

\* Lines 102-129: a frame of fewer than two columns is refused; find the
\* rows to translate; return when there is none.
DeterminePending ==
    /\ pc = "validate"
    /\ IF Len(columns) < 2
       THEN /\ pc' = "raised"
            /\ exception' = "ValueError"
            /\ UNCHANGED << rows_to_translate, hist >>
       ELSE /\ rows_to_translate' =
                   PendingRows(df, Lang.target_col, completed_indices)
            /\ hist' = [hist EXCEPT !.df_start = df]
            /\ pc' = IF rows_to_translate' = <<>> THEN "returned" ELSE "for"
            /\ exception' = exception
    /\ UNCHANGED << columns, input_df, checkpoint_file, output_file,
                    terminology_engine, terminology_dict, replacement_cache,
                    checkpoint, df, completed_indices, failed_indices,
                    terminology_stats, i, loc, attempt, save,
                    runs, last_saved, crash_site, engine_call, managers >>

\* ---------------------------------------------------- _execute_translation
\* len(rows_to_translate)
total_rows == Len(rows_to_translate)

\* The row in hand: rows_to_translate[i]
idx == rows_to_translate[i + 1]

Files == << columns, input_df, checkpoint_file, output_file >>
Engine == << terminology_engine, terminology_dict >>

\* Line 142: the for statement takes the next row, or the loop ends.
ForNext ==
    /\ pc = "for"
    /\ IF i + 1 < total_rows
       THEN /\ i' = i + 1
            /\ pc' = "read"
       ELSE /\ i' = i
            /\ pc' = "to_excel"
    /\ loc' = NoLocals
    /\ attempt' = 0
    /\ hist' = [hist EXCEPT !.call = NoCall, !.sleeps = <<>>]
    /\ UNCHANGED << Files, exception, Engine, replacement_cache, checkpoint,
                    df, completed_indices, failed_indices, terminology_stats,
                    rows_to_translate, save, runs, last_saved, crash_site, engine_call, managers >>

\* Lines 146-151: read the source cell; a blank one completes the row.
ReadSource ==
    /\ pc = "read"
    /\ LET source_text == Strip(StrOf(df[idx][Lang.source_col])) IN
       IF source_text = <<>>
       THEN /\ completed_indices' = Append(completed_indices, idx)
            /\ pc' = "for"
            /\ loc' = loc
            /\ hist' = [hist EXCEPT !.since_save = @ + 1]
       ELSE /\ completed_indices' = completed_indices
            /\ pc' = "subst"
            /\ loc' = [loc EXCEPT !.source_text = source_text,
                                  !.processed_text = source_text]
            /\ hist' = hist
    /\ UNCHANGED << Files, exception, Engine, replacement_cache, checkpoint,
                    df, failed_indices, terminology_stats, rows_to_translate,
                    i, attempt, save, runs, last_saved, crash_site, engine_call, managers >>

\* Lines 155-172: terminology substitution and its count.
Substitute ==
    /\ pc = "subst"
    /\ IF terminology_engine
       THEN LET r == ReplaceTermsInText(terminology_dict, replacement_cache,
                         loc.source_text, Lang.source_lang, Lang.target_lang)
            IN /\ loc' = [loc EXCEPT !.processed_text = r.text,
                                     !.replaced_terms = r.replaced]
               /\ replacement_cache' =
                      CacheAfterReplace(terminology_dict, replacement_cache,
                          loc.source_text, Lang.source_lang, Lang.target_lang)
               /\ terminology_stats' =
                      IF r.replaced # <<>>
                      THEN [terminology_stats EXCEPT
                                !.total_replacements = @ + Len(r.replaced)]
                      ELSE terminology_stats
               /\ hist' = [hist EXCEPT !.substituted = @ \cup {idx}]
       ELSE UNCHANGED << loc, replacement_cache, terminology_stats, hist >>
    /\ pc' = "try"
    /\ UNCHANGED << Files, exception, Engine, checkpoint, df,
                    completed_indices, failed_indices, rows_to_translate,
                    i, attempt, save, runs, last_saved, crash_site, engine_call, managers >>

\* TryTranslate without the test of self.terminology_engine in line 176.
TryTranslate_NoEngineTest ==
    /\ pc = "try"
    /\ IF IsFullyTranslated(loc.processed_text, Lang.source_lang)
       THEN /\ loc' = [loc EXCEPT !.translated_text = loc.processed_text]
            /\ pc' = "write"
            /\ hist' = hist
       ELSE /\ loc' = loc
            /\ pc' = "api"
            /\ hist' = [hist EXCEPT !.requested = @ \cup {idx}]
    /\ attempt' = 0
    /\ UNCHANGED << Files, exception, Engine, replacement_cache, checkpoint,
                    df, completed_indices, failed_indices, terminology_stats,
                    rows_to_translate, i, save, runs, last_saved,
                    crash_site, engine_call, managers >>

\* Lines 175-184: use the substituted text as it is, or call translate_text.
TryTranslate ==
    /\ pc = "try"
    /\ IF terminology_engine
          /\ IsFullyTranslated(loc.processed_text, Lang.source_lang)
       THEN /\ loc' = [loc EXCEPT !.translated_text = loc.processed_text]
            /\ pc' = "write"
            /\ hist' = hist
       ELSE /\ loc' = loc
            /\ pc' = "api"
            /\ hist' = [hist EXCEPT !.requested = @ \cup {idx}]
    /\ attempt' = 0
    /\ UNCHANGED << Files, exception, Engine, replacement_cache, checkpoint,
                    df, completed_indices, failed_indices, terminology_stats,
                    rows_to_translate, i, save, runs, last_saved,
                    crash_site, engine_call, managers >>

\* TranslateStep with the test of line 39 outside the except clause: the
\* last attempt raises whatever it got.
TranslateStep_RaiseOnLast(att, response) ==
    IF att = max_retries - 1 THEN "raise"
    ELSE IF response.exc THEN "retry"
    ELSE IF ValidResult(response.text) THEN "return"
    ELSE "retry"

\* translate_text, one pass of its loop: what the pass leads to.
\*   "return"  the result is returned
\*   "raise"   the exception is raised again
\*   "retry"   the loop goes on to the next attempt
\*   "give_up" the loop is over and the fixed text is returned
TranslateStep(att, response) ==
    IF response.exc
    THEN IF att = max_retries - 1 THEN "raise" ELSE "retry"
    ELSE IF ValidResult(response.text) THEN "return"
    ELSE IF att + 1 < max_retries THEN "retry" ELSE "give_up"

\* Line 41 of translation_engine.py: time.sleep is reached in the except
\* clause, when the attempt is not the last.
SleepsBeforeRetry(att, response) == response.exc /\ att # max_retries - 1

\* Lines 21-43 of translation_engine.py: one request and what follows it.
TranslateText(response) ==
    /\ pc = "api"
    /\ LET step == TranslateStep(attempt, response) IN
       /\ pc' = CASE step = "return" -> "write"
                  [] step = "give_up" -> "write"
                  [] step = "raise" -> "except"
                  [] OTHER -> "api"
       /\ attempt' = IF step = "retry" THEN attempt + 1 ELSE 0
       /\ loc' = CASE step = "return" ->
                         [loc EXCEPT !.translated_text = response.text]
                   [] step = "give_up" ->
                         [loc EXCEPT !.translated_text = RetriesExceededText]
                   [] step = "raise" -> [loc EXCEPT !.e = "APIError"]
                   [] OTHER -> loc
    /\ hist' = [hist EXCEPT
                   !.call =
                       [attempts |-> @.attempts + 1,
                        errors |-> @.errors + (IF response.exc THEN 1 ELSE 0),
                        last |-> IF response.exc THEN "error"
                                 ELSE IF ValidResult(response.text) THEN "valid"
                                 ELSE "invalid"],
                   !.sleeps = IF SleepsBeforeRetry(attempt, response)
                              THEN Append(@, delay * (attempt + 1))
                              ELSE @]
    /\ UNCHANGED << Files, exception, Engine, replacement_cache, checkpoint,
                    df, completed_indices, failed_indices, terminology_stats,
                    rows_to_translate, i, save, runs, last_saved,
                    crash_site, engine_call, managers >>

\* Line 186: the translation goes into the target cell.
WriteTarget ==
    /\ pc = "write"
    /\ df' = SetCell(df, idx, Lang.target_col, loc.translated_text)
    /\ pc' = "mark"
    /\ UNCHANGED << Files, exception, Engine, replacement_cache, checkpoint,
                    completed_indices, failed_indices, terminology_stats,
                    rows_to_translate, i, loc, attempt, save, runs, hist,
                    last_saved, crash_site, engine_call, managers >>

\* Line 187
MarkCompleted ==
    /\ pc = "mark"
    /\ completed_indices' = Append(completed_indices, idx)
    /\ pc' = "autosave"
    /\ UNCHANGED << Files, exception, Engine, replacement_cache, checkpoint,
                    df, failed_indices, terminology_stats, rows_to_translate,
                    i, loc, attempt, save, runs, hist, last_saved,
                    crash_site, engine_call, managers >>

\* Lines 189-191: the exception of the call becomes the text of the cell.
WriteErrorMsg ==
    /\ pc = "except"
    /\ df' = SetCell(df, idx, Lang.target_col, ErrorMsg(loc.e))
    /\ pc' = "mark_failed"
    /\ UNCHANGED << Files, exception, Engine, replacement_cache, checkpoint,
                    completed_indices, failed_indices, terminology_stats,
                    rows_to_translate, i, loc, attempt, save, runs, hist,
                    last_saved, crash_site, engine_call, managers >>

\* Line 192
MarkFailed ==
    /\ pc = "mark_failed"
    /\ failed_indices' = Append(failed_indices, idx)
    /\ pc' = "autosave"
    /\ UNCHANGED << Files, exception, Engine, replacement_cache, checkpoint,
                    df, completed_indices, terminology_stats,
                    rows_to_translate, i, loc, attempt, save, runs, hist,
                    last_saved, crash_site, engine_call, managers >>

\* The arguments of a save_checkpoint call, as the properties compare them.
SaveArgs(current_idx, total, frame, completed, failed, stats) ==
    [type |-> "args", current_idx |-> current_idx, total_rows |-> total,
     df |-> frame, completed |-> completed, failed |-> failed, stats |-> stats]

\* Lines 53-63 of checkpoint_manager.py: save_checkpoint builds its dict.
CallSave(current_idx, ret) ==
    save' = [checkpoint |-> Snapshot(current_idx, total_rows, df,
                               completed_indices, failed_indices,
                               terminology_stats),
             args |-> SaveArgs(current_idx, total_rows, df, completed_indices,
                               failed_indices, terminology_stats),
             ret |-> ret]

\* (i + 1) % self.config.translation.auto_save_interval == 0
AutoSaveDue(n) == (n + 1) % AutoSaveInterval = 0

\* Lines 196-209: after the row, save a checkpoint when one is due.
AutoSave ==
    /\ pc = "autosave"
    /\ IF AutoSaveDue(i)
       THEN /\ CallSave(idx, "delay")
            /\ pc' = "save_open"
       ELSE /\ save' = save
            /\ pc' = "delay"
    /\ hist' = [hist EXCEPT !.call = NoCall, !.sleeps = <<>>,
                             !.since_save = IF AutoSaveDue(i) THEN 0 ELSE @ + 1]
    /\ UNCHANGED << Files, exception, Engine, replacement_cache, checkpoint,
                    df, completed_indices, failed_indices, terminology_stats,
                    rows_to_translate, i, loc, attempt, runs,
                    last_saved, crash_site, engine_call, managers >>

\* Line 66 of checkpoint_manager.py: open(..., 'wb') empties the file.
SaveOpen ==
    /\ pc = "save_open"
    /\ checkpoint_file' = Damaged("empty")
    /\ last_saved' = None
    /\ pc' = "save_dump"
    /\ hist' = [hist EXCEPT !.file_before_save = checkpoint_file]
    /\ UNCHANGED << columns, input_df, output_file, exception, Engine,
                    replacement_cache, checkpoint, df, completed_indices,
                    failed_indices, terminology_stats, rows_to_translate, i,
                    loc, attempt, save, runs, crash_site, engine_call, managers >>

\* Line 67 of checkpoint_manager.py: pickle.dump writes the dict.
SaveDump ==
    /\ pc = "save_dump"
    /\ checkpoint_file' = Pickled(save.checkpoint)
    /\ last_saved' = save.args
    /\ pc' = save.ret
    /\ save' = NoSave
    /\ UNCHANGED << columns, input_df, output_file, exception, Engine,
                    replacement_cache, checkpoint, df, completed_indices,
                    failed_indices, terminology_stats, rows_to_translate, i,
                    loc, attempt, runs, hist, crash_site, engine_call, managers >>

\* if replaced_terms and len(replaced_terms) == 0
DelayDue(replaced_terms) == replaced_terms # <<>> /\ Len(replaced_terms) = 0

\* Lines 211-213: the delay between requests.
ApiDelay ==
    /\ pc = "delay"
    /\ hist' = IF DelayDue(loc.replaced_terms)
               THEN [hist EXCEPT !.delays = @ \cup {idx}]
               ELSE hist
    /\ pc' = "for"
    /\ UNCHANGED << Files, exception, Engine, replacement_cache, checkpoint,
                    df, completed_indices, failed_indices, terminology_stats,
                    rows_to_translate, i, loc, attempt, save, runs,
                    last_saved, crash_site, engine_call, managers >>

\* Where a KeyboardInterrupt is caught by line 215: inside the try block.
InTry == pc \in {"for", "read", "subst", "try", "api", "write", "mark",
                 "except", "mark_failed", "autosave", "delay"}
         \/ (pc \in {"save_open", "save_dump"} /\ save.ret = "delay")

\* Interrupt with a handler that returns without saving.
Interrupt_NoSave ==
    /\ InTry
    /\ ~ hist.interrupted
    /\ hist' = [hist EXCEPT
                    !.call = NoCall,
                    !.sleeps = <<>>,
                    !.interrupted = TRUE,
                    !.at_interrupt =
                        SaveArgs(IF i >= 0 THEN idx ELSE -1, total_rows, df,
                                 completed_indices, failed_indices,
                                 terminology_stats)]
    /\ pc' = "returned"
    /\ save' = NoSave
    /\ UNCHANGED << Files, exception, Engine, replacement_cache, checkpoint,
                    df, completed_indices, failed_indices, terminology_stats,
                    rows_to_translate, i, loc, attempt, runs, last_saved,
                    crash_site, engine_call, managers >>

\* Lines 215-222: the interrupt handler saves a checkpoint and returns.
\* Before the first row is taken, i is not bound and the handler fails.
Interrupt ==
    /\ InTry
    /\ ~ hist.interrupted
    /\ hist' = [hist EXCEPT
                    !.call = NoCall,
                    !.sleeps = <<>>,
                    !.interrupted = TRUE,
                    !.at_interrupt =
                        SaveArgs(IF i >= 0 THEN idx ELSE -1, total_rows, df,
                                 completed_indices, failed_indices,
                                 terminology_stats),
                    !.handler_saves = IF i >= 0 THEN @ + 1 ELSE @]
    /\ IF i < 0
       THEN /\ pc' = "raised"
            /\ exception' = "UnboundLocalError"
            /\ save' = save
       ELSE /\ pc' = "save_open"
            /\ exception' = exception
            /\ CallSave(IF i < total_rows THEN idx ELSE -1, "returned")
    /\ UNCHANGED << Files, Engine, replacement_cache, checkpoint, df,
                    completed_indices, failed_indices, terminology_stats,
                    rows_to_translate, i, loc, attempt, runs, last_saved,
                    crash_site, engine_call, managers >>

\* Line 225: df.to_excel(output_file)
ToExcel ==
    /\ pc = "to_excel"
    /\ output_file' = [state |-> "written", frame |-> df]
    /\ hist' = [hist EXCEPT !.out_writes = @ + 1]
    /\ pc' = "cleanup"
    /\ UNCHANGED << columns, input_df, checkpoint_file, exception, Engine,
                    replacement_cache, checkpoint, df, completed_indices,
                    failed_indices, terminology_stats, rows_to_translate, i,
                    loc, attempt, save, runs, last_saved, crash_site, engine_call, managers >>

\* Lines 228-233: cleanup_checkpoint removes the file; the run returns.
CleanupCheckpoint ==
    /\ pc = "cleanup"
    /\ checkpoint_file' = AbsentFile
    /\ last_saved' = None
    /\ hist' = [hist EXCEPT !.cleanups = @ + 1]
    /\ pc' = "returned"
    /\ UNCHANGED << columns, input_df, output_file, exception, Engine,
                    replacement_cache, checkpoint, df, completed_indices,
                    failed_indices, terminology_stats, rows_to_translate, i,
                    loc, attempt, save, runs, crash_site, engine_call, managers >>

\* ------------------------------------------------------------- environment
\* What a crash in the middle of pickle.dump leaves of the file.
PartialWrites == { Damaged("empty"), Damaged("truncated_eof"),
                   Damaged("truncated") }

\* The process dies: its memory is lost, the files stay as they are.
Crash ==
    /\ ~ NotRunning
    /\ pc' = "crashed"
    /\ exception' = "none"
    /\ MemoryCleared
    /\ IF pc = "save_dump"
       THEN /\ checkpoint_file' \in PartialWrites
            /\ crash_site' = [in_save |-> TRUE, before |-> hist.file_before_save,
                              new |-> save.checkpoint]
       ELSE /\ checkpoint_file' = checkpoint_file
            /\ crash_site' = NoCrash
    /\ hist' = NoHist
    /\ UNCHANGED << columns, input_df, output_file, runs, last_saved, engine_call, managers >>

\* The process is over (it returned, raised or crashed): nothing of its
\* memory is left.
ProcessExit ==
    /\ pc \in {"returned", "raised", "crashed"}
    /\ pc' = "idle"
    /\ exception' = "none"
    /\ MemoryCleared
    /\ hist' = NoHist
    /\ crash_site' = NoCrash
    /\ UNCHANGED << Files, runs, last_saved, engine_call, managers >>

\* A value other than the dict of save_checkpoint: what a different
\* version or another program left in the file.
ForeignValues(file) ==
    { [type |-> "int", dict |-> <<>>], [type |-> "list", dict |-> <<>>] } \cup
    IF file.state = "pickle" /\ file.value.type = "dict"
    THEN { [type |-> "dict",
            dict |-> [k \in DOMAIN file.value.dict \ {missing}
                         |-> file.value.dict[k]]] :
           missing \in {"total_rows"} }
    ELSE {}

\* The checkpoint file is damaged or replaced between two runs.
CorruptCheckpoint ==
    /\ pc = "idle"
    /\ runs < MaxRuns
    /\ HasCheckpoint(checkpoint_file)
    /\ checkpoint_file' \in
           { Damaged("unreadable"), Damaged("garbage") } \cup
           { Pickled(v) : v \in ForeignValues(checkpoint_file) }
    /\ last_saved' = None
    /\ UNCHANGED << columns, input_df, output_file, pc, exception, Engine,
                    replacement_cache, checkpoint, df, completed_indices,
                    failed_indices, terminology_stats, rows_to_translate, i,
                    loc, attempt, save, runs, hist, crash_site, engine_call, managers >>

\* ----------------------------------------------------------- specification
Next ==
    \/ \E terminology_file \in RunTermFiles, answer \in {"y", "n"} :
           ProcessTranslation(terminology_file, answer)
    \/ DeterminePending
    \/ ForNext
    \/ ReadSource
    \/ Substitute
    \/ TryTranslate
    \/ \E response \in Responses : TranslateText(response)
    \/ WriteTarget
    \/ MarkCompleted
    \/ WriteErrorMsg
    \/ MarkFailed
    \/ AutoSave
    \/ SaveOpen
    \/ SaveDump
    \/ ApiDelay
    \/ Interrupt
    \/ ToExcel
    \/ CleanupCheckpoint
    \/ Crash
    \/ ProcessExit
    \/ CorruptCheckpoint

Spec == Init /\ [][Next]_vars

\* ------------------------------------------------- the engines on their own
\* A TerminologyEngine and a TranslationEngine called directly, on one
\* argument triple chosen at the start.
MaxCalls == 2             \* replace_terms_in_text calls between two loads

EngineTexts ==
    { <<"ren", "gong", "zhi", "neng", "hen", "qiang">>,
      <<"ren", "gong", "zhi", "neng", " ", "hen", "qiang">>,
      <<"ren", "gong", "zhi", "neng">>,
      <<"neng">>,
      <<"a", " ", "i">>,
      <<"hen", " ", "a">>,
      <<"U+3400">>,
      <<>> }

SourceLangs == {"zh", "en", "ja"}
TargetLangs == {"zh", "en"}

\* After TerminologyEngine() and TranslationEngine(config): an empty
\* dictionary and an empty cache; no run of the pipeline.
EngineInit ==
    /\ columns = <<"chinese", "english">>
    /\ input_df = [r \in Rows |-> [chinese |-> NaN, english |-> NaN]]
    /\ checkpoint_file = AbsentFile
    /\ output_file = NoOutput
    /\ pc = "idle"
    /\ exception = "none"
    /\ terminology_engine = TRUE
    /\ terminology_dict = <<>>
    /\ replacement_cache = {}
    /\ checkpoint = None
    /\ df = <<>>
    /\ completed_indices = <<>>
    /\ failed_indices = <<>>
    /\ terminology_stats = NoStats
    /\ rows_to_translate = <<>>
    /\ i = -1
    /\ loc = NoLocals
    /\ attempt = 0
    /\ save = NoSave
    /\ runs = 0
    /\ hist = NoHist
    /\ last_saved = None
    /\ crash_site = NoCrash
    /\ managers = <<>>
    /\ \E text \in EngineTexts, source_lang \in SourceLangs,
          target_lang \in TargetLangs :
           engine_call = [NoEngineCall EXCEPT !.text = text,
                                              !.source_lang = source_lang,
                                              !.target_lang = target_lang]

Pipeline == << columns, input_df, checkpoint_file, output_file, pc, exception,
               terminology_engine, checkpoint, df, completed_indices,
               failed_indices, terminology_stats, rows_to_translate, i, loc,
               attempt, save, runs, hist, last_saved, crash_site, managers >>

\* load_terminology(file_path): the dictionary is replaced; nothing is done
\* to replacement_cache.
LoadTerminology(rows) ==
    /\ terminology_dict' = LoadTerminologyDict(rows)
    /\ replacement_cache' = replacement_cache
    /\ engine_call' = [engine_call EXCEPT !.calls = 0, !.result = None]
    /\ UNCHANGED Pipeline

\* replace_terms_in_text(text, source_lang, target_lang)
ReplaceTermsCall ==
    /\ engine_call.calls < MaxCalls
    /\ engine_call' =
           [engine_call EXCEPT
                !.calls = @ + 1,
                !.result = ReplaceTermsInText(terminology_dict,
                               replacement_cache, engine_call.text,
                               engine_call.source_lang,
                               engine_call.target_lang)]
    /\ replacement_cache' =
           CacheAfterReplace(terminology_dict, replacement_cache,
               engine_call.text, engine_call.source_lang,
               engine_call.target_lang)
    /\ UNCHANGED << Pipeline, terminology_dict >>

\* is_fully_translated(text, source_lang)
IsFullyTranslatedCall ==
    /\ engine_call.fully = None
    /\ engine_call' =
           [engine_call EXCEPT
                !.fully = [type |-> "bool",
                           value |-> IsFullyTranslated(engine_call.text,
                                         engine_call.source_lang)]]
    /\ UNCHANGED << Pipeline, terminology_dict, replacement_cache >>

EngineNext ==
    \/ \E rows \in TermFiles : LoadTerminology(rows)
    \/ ReplaceTermsCall
    \/ IsFullyTranslatedCall

EngineSpec == EngineInit /\ [][EngineNext]_vars

\* ------------------------------------------------------ the checkpoint slots
\* CheckpointManager objects made for input files, as process_translation
\* makes one for each run.
MaxManagers == 2          \* managers made in a behaviour

\* A path is a directory, the name of the file without its extension, and
\* the extension.  find_input_files offers the *.xlsx and *.xls files of the
\* input directory; process_translation takes any path.
InputPaths ==
    [dir : {"input", "archive"}, stem : {"data", "terms", "data.v2"},
     ext : {".xlsx", ".xls"}]

\* os.path.basename(path)
Basename(path) == [stem |-> path.stem, ext |-> path.ext]

\* os.path.splitext(name): (root, ext)
Splitext(name) == << name.stem, name.ext >>

\* Lines 23-24 of checkpoint_manager.py: self.checkpoint_file
CheckpointPath(input_file, cache_dir) ==
    [dir |-> cache_dir,
     stem |-> << Splitext(Basename(input_file))[1], "_checkpoint" >>,
     ext |-> ".pkl"]

\* No manager has been made; no run of the pipeline, no call on the engines.
SlotInit ==
    /\ columns = <<"chinese", "english">>
    /\ input_df = [r \in Rows |-> [chinese |-> NaN, english |-> NaN]]
    /\ checkpoint_file = AbsentFile
    /\ output_file = NoOutput
    /\ pc = "idle"
    /\ exception = "none"
    /\ terminology_engine = FALSE
    /\ terminology_dict = <<>>
    /\ replacement_cache = {}
    /\ checkpoint = None
    /\ df = <<>>
    /\ completed_indices = <<>>
    /\ failed_indices = <<>>
    /\ terminology_stats = NoStats
    /\ rows_to_translate = <<>>
    /\ i = -1
    /\ loc = NoLocals
    /\ attempt = 0
    /\ save = NoSave
    /\ runs = 0
    /\ hist = NoHist
    /\ last_saved = None
    /\ crash_site = NoCrash
    /\ engine_call = NoEngineCall
    /\ managers = <<>>

\* CheckpointManager(input_file, output_file, self.config.directories.cache)
NewCheckpointManager(input_file) ==
    /\ Len(managers) < MaxManagers
    /\ managers' = Append(managers,
                       [input_file |-> input_file,
                        checkpoint_file |-> CheckpointPath(input_file, "cache")])
    /\ UNCHANGED << columns, input_df, checkpoint_file, output_file, pc,
                    exception, terminology_engine, terminology_dict,
                    replacement_cache, checkpoint, df, completed_indices,
                    failed_indices, terminology_stats, rows_to_translate, i,
                    loc, attempt, save, runs, hist, last_saved, crash_site,
                    engine_call >>

SlotNext == \E input_file \in InputPaths : NewCheckpointManager(input_file)

SlotSpec == SlotInit /\ [][SlotNext]_vars

\* ============================================================== properties
SeqToSet(sq) == { sq[n] : n \in 1 .. Len(sq) }

\* The run resumed from a checkpoint and has determined its pending rows.
Resumed == Truthy(checkpoint) /\ hist.df_start # <<>>

\* The rows a resumed run has to leave alone.
RestoredCompleted == SeqToSet(checkpoint.dict["completed_indices"])

\* C1: on a resumed run the pending rows are exactly the rows with an empty
\* target cell that the snapshot does not list as completed; no row of the
\* restored completed set is handed to substitution or to the translation
\* client; and the cells of every row that is not pending stay as they were
\* when the run began.
C1_ResumeSkipsCompleted ==
    Resumed =>
        LET before == FromDict(checkpoint.dict["dataframe"])
            pending == SeqToSet(rows_to_translate)
        IN /\ pending = { r \in DOMAIN before :
                            EmptyMask(before[r][Lang.target_col]) }
                        \ RestoredCompleted
           /\ (hist.substituted \cup hist.requested) \cap RestoredCompleted = {}
           /\ \A r \in DOMAIN before \ pending : df[r] = before[r]

\* A resumed run with a completed row behind it has translated another row
\* and returned.
C1_Witness ==
    /\ Resumed
    /\ pc = "returned"
    /\ ~ hist.interrupted
    /\ RestoredCompleted # {}
    /\ hist.requested # {}
    /\ \E r \in RestoredCompleted : EmptyMask(df[r][Lang.target_col])

\* The bookkeeping of the row in hand is done.
RowDone == pc = "autosave"

\* The translate_text call of the row in hand sent max_retries requests and
\* none of them gave a valid response.
RetriesExhausted ==
    hist.call.attempts = max_retries /\ hist.call.last # "valid"

\* The text in the target cell is one of the two failure texts.
IsFailureMarker(cell) == cell = RetriesExceededText \/ cell = ErrorMsg("APIError")

\* C2: a row whose max_retries requests all failed, by an exception or by an
\* empty or HTML response, is in failed and not in completed, and its target
\* cell holds a failure marker.
C2_ExhaustedRowIsFailed ==
    (RowDone /\ RetriesExhausted) =>
        /\ InSeq(idx, failed_indices)
        /\ ~ InSeq(idx, completed_indices)
        /\ IsFailureMarker(df[idx][Lang.target_col])

\* C3: the snapshot a save wrote is the snapshot load returns, with the
\* completed rows, the failed rows and the dataset that were handed to save;
\* and a run that resumes starts from that dataset, those sets and those
\* statistics.
C3_SaveLoadRoundTrip ==
    /\ last_saved # None =>
           LET r == LoadCheckpoint(checkpoint_file) IN
           /\ r.exc = "none"
           /\ Truthy(r.checkpoint)
           /\ r.checkpoint.dict["completed_indices"] = last_saved.completed
           /\ r.checkpoint.dict["failed_indices"] = last_saved.failed
           /\ FromDict(r.checkpoint.dict["dataframe"]) = last_saved.df
    /\ (pc = "validate" /\ Truthy(checkpoint)) =>
           /\ last_saved # None
           /\ df = last_saved.df
           /\ completed_indices = last_saved.completed
           /\ failed_indices = last_saved.failed
           /\ terminology_stats = last_saved.stats

\* A run has resumed from a snapshot that lists a completed row and a failed
\* row and counts a replacement.
C3_Witness ==
    /\ pc = "validate"
    /\ Truthy(checkpoint)
    /\ completed_indices # <<>>
    /\ failed_indices # <<>>
    /\ terminology_stats.total_replacements > 0
    /\ \E r \in DOMAIN df : df[r] # input_df[r]

\* The file holds a complete pickle of a dict with every required key.
ValidFile(file) == file.state = "pickle" /\ ValidateCheckpoint(file.value)

\* C4: load_checkpoint never raises, whatever the file holds, and returns a
\* snapshot exactly when the file holds a dict with every required key.
C4_LoadNeverRaises ==
    pc = "idle" =>
        LET r == LoadCheckpoint(checkpoint_file) IN
        /\ r.exc = "none"
        /\ (r.checkpoint # None) <=> ValidFile(checkpoint_file)

\* The exceptions the resume check of process_translation can end with.
ResumeCheckExceptions == {"ZeroDivisionError", "EOFError", "TypeError"}

\* The run found a checkpoint file that load_checkpoint does not accept.
InvalidAtStart ==
    HasCheckpoint(hist.file_at_start) /\ ~ ValidFile(hist.file_at_start)

\* C5: a run that finds a corrupt or invalid checkpoint file does not raise
\* because of it and goes on as a fresh run, from the input dataset with
\* nothing completed and nothing failed.
C5_InvalidCheckpointStartsFresh ==
    InvalidAtStart =>
        /\ ~ (pc = "raised" /\ exception \in ResumeCheckExceptions)
        /\ pc = "validate" =>
               /\ df = input_df
               /\ completed_indices = <<>>
               /\ failed_indices = <<>>

\* C6: after a crash in the middle of a save that found a valid snapshot in
\* the file, load_checkpoint returns that snapshot or the new one.
C6_CrashKeepsASnapshot ==
    (pc = "crashed" /\ crash_site.in_save /\ ValidFile(crash_site.before)) =>
        LET r == LoadCheckpoint(checkpoint_file) IN
        /\ r.exc = "none"
        /\ r.checkpoint \in {crash_site.before.value, crash_site.new}

\* C7: the completed rows and the failed rows are disjoint and are rows of
\* the dataset, in the memory of the run and in every snapshot on disk.
C7_CompletedFailedDisjoint ==
    /\ SeqToSet(completed_indices) \cap SeqToSet(failed_indices) = {}
    /\ SeqToSet(completed_indices) \cup SeqToSet(failed_indices)
           \subseteq DOMAIN input_df
    /\ ValidFile(checkpoint_file) =>
           LET cp == checkpoint_file.value IN
           /\ SeqToSet(cp.dict["completed_indices"])
                  \cap SeqToSet(Get(cp, "failed_indices", <<>>)) = {}
           /\ SeqToSet(cp.dict["completed_indices"])
                  \cup SeqToSet(Get(cp, "failed_indices", <<>>))
                  \subseteq DOMAIN input_df

\* A run resumed from a snapshot with a failed row has completed a row of
\* its own.
C7_Witness ==
    /\ Resumed
    /\ SeqToSet(Get(checkpoint, "failed_indices", <<>>)) # {}
    /\ SeqToSet(completed_indices) \ RestoredCompleted # {}
    /\ hist.interrupted

\* The interrupt reached the run while a row was in hand, and the run is over.
InterruptedRun == hist.interrupted /\ hist.at_interrupt.current_idx >= 0

C9_RunWritesOutputAndClears ==
    (pc = "returned" /\ ~ hist.interrupted) =>
        /\ hist.out_writes = 1
        /\ output_file = [state |-> "written", frame |-> df]
        /\ DOMAIN output_file.frame = DOMAIN input_df
        /\ ~ HasCheckpoint(checkpoint_file)

\* C10: when a request of translate_text gives a valid response after the
\* earlier ones failed, no further request is sent, the call returns that
\* response, and the row is completed with the response in its target cell
\* and no failure marker.
C10_RetryThenSuccess ==
    hist.call.last = "valid" =>
        /\ hist.call.attempts <= max_retries
        /\ pc \in {"write", "mark", "autosave"}
        /\ ValidResult(loc.translated_text)
        /\ pc \in {"mark", "autosave"} =>
               df[idx][Lang.target_col] = loc.translated_text
        /\ RowDone =>
               /\ InSeq(idx, completed_indices)
               /\ ~ InSeq(idx, failed_indices)
               /\ ~ IsFailureMarker(df[idx][Lang.target_col])

\* The third request of a call gave a valid response after one request
\* raised and one gave an invalid response; the row is completed.
C10_Witness ==
    /\ RowDone
    /\ hist.call = [attempts |-> 3, errors |-> 1, last |-> "valid"]
    /\ InSeq(idx, completed_indices)

\* The argument triple of the engine calls is the text, from zh to en.
CalledWith(text) ==
    /\ engine_call.text = text
    /\ engine_call.source_lang = "zh"
    /\ engine_call.target_lang = "en"

\* C11: with the two terms ren-gong-zhi-neng -> ai and neng -> can loaded,
\* replace_terms_in_text on the text ren-gong-zhi-neng-hen-qiang, from zh to
\* en, returns ai-hen-qiang: the longer key is applied first and whole.
C11_LongestKeyFirst ==
    ( /\ terminology_dict = LoadTerminologyDict(TermRowsAI)
      /\ CalledWith(<<"ren", "gong", "zhi", "neng", "hen", "qiang">>)
      /\ engine_call.result # None ) =>
        engine_call.result.text = <<"a", "i", "hen", "qiang">>

\* C12: a replace_terms_in_text call that follows another one on the same
\* arguments, with the dictionary as it was, returns the same text and the
\* same list of applied terms, and leaves the cache as it found it.
C12_SecondCallSame ==
    [][ ( /\ engine_call.calls >= 1
          /\ engine_call'.calls = engine_call.calls + 1 ) =>
            /\ engine_call'.result = engine_call.result
            /\ replacement_cache' = replacement_cache ]_vars

\* A second call has returned a text rewritten by a term, from the cache.
C12_Witness ==
    /\ engine_call.calls = 2
    /\ engine_call.result.replaced # <<>>
    /\ engine_call.result.text # engine_call.text
    /\ replacement_cache # {}

\* The text holds a CJK ideograph, of the range U+4E00..U+9FFF or not.
HasIdeograph(text) ==
    \E p \in 1 .. Len(text) : text[p] \in CJKChars \cup RareIdeographs

\* C13: is_fully_translated(text, "zh") is true exactly when the text holds
\* no CJK ideograph, and is_fully_translated is false for every text when
\* the source language is not "zh".
C13_FullyTranslatedIffNoIdeograph ==
    engine_call.fully # None =>
        IF engine_call.source_lang = "zh"
        THEN engine_call.fully.value <=> ~ HasIdeograph(engine_call.text)
        ELSE engine_call.fully.value = FALSE

\* The sleeps of a call whose first n requests all failed and were each
\* followed by another request: delay, 2 * delay, ...
Backoff(n) == [k \in 1 .. n |-> delay * k]

\* C14: translate_text sends at most max_retries requests; before every
\* request but the first it has slept delay times the number of the attempt
\* that failed; and when no request gave a valid response it ends by
\* raising, with no value returned.
C14_RetriesBackOffAndRaise ==
    /\ hist.call.attempts <= max_retries
    /\ pc = "api" => hist.sleeps = Backoff(hist.call.attempts)
    /\ RetriesExhausted =>
           /\ loc.e # "none"
           /\ loc.translated_text = <<>>
           /\ pc \in {"except", "mark_failed", "autosave"}

\* C15: a checkpoint save is requested after every AutoSaveInterval-th row
\* the loop has handled, whatever became of the row (translated, taken from
\* the substitution, failed, or skipped for a blank source); so fewer than
\* AutoSaveInterval rows have been handled since the last request.
C15_SaveEveryNthRow ==
    hist.since_save < AutoSaveInterval

\* The loop is through with the row in hand.
RowLeft == pc = "for" /\ i >= 0

\* C16: after a row the delay between requests is slept exactly when
\* translate_text was called for the row; a row settled by the substitution
\* alone or skipped as blank is not delayed.
C16_DelayIffRequested ==
    RowLeft => (idx \in hist.delays <=> idx \in hist.requested)

\* The source cell of the row in hand reads as an empty text: line 148.
BlankSource == Strip(StrOf(df[idx][Lang.source_col])) = <<>>

\* The text of the row after the substitution holds nothing of the source
\* language, by is_fully_translated.
FullyTarget ==
    ~ BlankSource /\ IsFullyTranslated(loc.processed_text, Lang.source_lang)

\* C17 as stated, for the rows whose source cell is not missing:
\* translate_text is not called for a row exactly when its source is blank
\* or its text after the substitution is fully in the target language; in
\* the second case that text is written to the target cell and the row is
\* completed.
C17_NoCallIffBlankOrFullyTarget ==
    (RowLeft /\ df[idx][Lang.source_col] # NaN) =>
        /\ idx \notin hist.requested <=> (BlankSource \/ FullyTarget)
        /\ FullyTarget =>
               /\ df[idx][Lang.target_col] = loc.processed_text
               /\ InSeq(idx, completed_indices)

\* C17 amended: translate_text is not called for a row exactly when its
\* source is blank or a terminology engine is set up and the text after the
\* substitution is fully in the target language; in the second case that
\* text is written to the target cell and the row is completed.
C17_NoCallIffBlankOrEngineFullyTarget ==
    RowLeft =>
        /\ idx \notin hist.requested <=>
               (BlankSource \/ (terminology_engine /\ FullyTarget))
        /\ (terminology_engine /\ FullyTarget) =>
               /\ df[idx][Lang.target_col] = loc.processed_text
               /\ InSeq(idx, completed_indices)
               /\ ~ InSeq(idx, failed_indices)

\* A row whose text a term rewrote into the target language was completed
\* without a request, and the run went on to a row that needed one.
C17_Witness ==
    /\ RowLeft
    /\ terminology_engine
    /\ FullyTarget
    /\ loc.replaced_terms # <<>>
    /\ idx \notin hist.requested
    /\ hist.requested # {}

\* The source cell of the row in hand is missing or holds white space only.
BlankOrMissingSource ==
    df[idx][Lang.source_col] = NaN \/ Strip(df[idx][Lang.source_col]) = <<>>

\* C18: a pending row whose source cell is blank or missing is added to
\* completed, is handed neither to the substitution nor to translate_text,
\* and keeps its target cell.
C18_BlankRowSkipped ==
    (RowLeft /\ BlankOrMissingSource) =>
        /\ InSeq(idx, completed_indices)
        /\ idx \notin hist.substituted \cup hist.requested
        /\ df[idx][Lang.target_col] = hist.df_start[idx][Lang.target_col]

\* The row in hand is recorded as completed or as failed.
Recorded(r) == InSeq(r, completed_indices) \/ InSeq(r, failed_indices)

\* translate_text was called for the row in hand and has not come back.
CallInFlight ==
    /\ idx \in hist.requested
    /\ loc.translated_text = <<>>
    /\ loc.e = "none"

\* C19: an interrupt takes effect between two rows only: when the handler
\* saves its checkpoint no translate_text call has been abandoned, and every
\* row whose target cell the run wrote or whose applied terms it counted is
\* recorded as completed or failed.
C19_InterruptBetweenRows ==
    InterruptedRun =>
        /\ ~ CallInFlight
        /\ \A r \in DOMAIN hist.at_interrupt.df :
               hist.at_interrupt.df[r] # hist.df_start[r] => Recorded(r)
        /\ (idx \in hist.substituted /\ loc.replaced_terms # <<>>) =>
               Recorded(idx)

\* The record process_translation hands to get_resume_info for the file:
\* load_checkpoint() or {}
Described(file) ==
    IF Truthy(LoadCheckpoint(file).checkpoint)
    THEN LoadCheckpoint(file).checkpoint
    ELSE EmptyDict

\* C20: get_resume_info returns its summary without raising for every
\* record it is given, also one whose total_rows is 0 or absent.
C20_DescribeNeverRaises ==
    ( /\ pc = "idle"
      /\ HasCheckpoint(checkpoint_file)
      /\ LoadCheckpoint(checkpoint_file).exc = "none" ) =>
        ResumeInfoError(Described(checkpoint_file)) = "none"

\* The dataset has fewer than two columns, or the terminology file of the
\* run gave no valid pair.
InvalidInput ==
    Len(columns) < 2 \/ (terminology_engine /\ terminology_dict = <<>>)

\* C21: a run on a dataset of fewer than two columns, or with a terminology
\* file that yields no valid pair, raises a validation error before any row
\* is processed: nothing is translated, no cell is written and no
\* checkpoint is saved.
C21_InvalidInputIsFatal ==
    InvalidInput =>
        /\ pc \in {"idle", "validate", "raised", "crashed"}
        /\ terminology_engine => pc = "raised"
        /\ pc = "raised" => exception = "ValueError"
        /\ hist.substituted \cup hist.requested = {}
        /\ pc # "idle" => checkpoint_file = hist.file_at_start

\* What replace_terms_in_text computes for the arguments under the
\* dictionary as it is now.
FreshResult(text, source_lang, target_lang) ==
    IF terminology_dict = <<>>
    THEN [text |-> text, replaced |-> <<>>]
    ELSE ComputeReplacement(terminology_dict, text, source_lang, target_lang)

\* C22: load_terminology on an engine leaves no cache entry of the
\* dictionary it replaces: every entry of replacement_cache, and every
\* result replace_terms_in_text returns, was computed with the dictionary
\* the engine holds.
C22_LoadClearsCache ==
    /\ \A e \in replacement_cache :
           e.result = FreshResult(e.key.text, e.key.source_lang,
                                  e.key.target_lang)
    /\ engine_call.result # None =>
           engine_call.result = FreshResult(engine_call.text,
                                    engine_call.source_lang,
                                    engine_call.target_lang)

\* C23: the checkpoint file is keyed by the input file: managers made for
\* the same input path use the same checkpoint file, and managers made for
\* two different input paths never use the same one.
C23_SlotPerInput ==
    \A m, n \in 1 .. Len(managers) :
        managers[m].input_file = managers[n].input_file
            <=> managers[m].checkpoint_file = managers[n].checkpoint_file

\* C24: in every snapshot the pipeline saves, the completed rows and the
\* failed rows together are no more than total_rows, so that the progress
\* get_resume_info shows is at most 100 percent.
C24_ProgressAtMostTotal ==
    ValidFile(checkpoint_file) =>
        LET cp == checkpoint_file.value IN
        /\ Len(cp.dict["completed_indices"])
               + Len(Get(cp, "failed_indices", <<>>)) <= cp.dict["total_rows"]
        /\ GetResumeInfo(cp).percent10 <= 1000

\* The number of applied-term entries replace_terms_in_text returns for the
\* source text of row r under the dictionary dict.
Applied(dict, r) ==
    IF Strip(StrOf(df[r][Lang.source_col])) = <<>> THEN 0
    ELSE Len(ReplaceTermsInText(dict, {},
                 Strip(StrOf(df[r][Lang.source_col])),
                 Lang.source_lang, Lang.target_lang).replaced)

RECURSIVE SumApplied(_, _)
SumApplied(dict, rows) ==
    IF rows = {} THEN 0
    ELSE LET r == CHOOSE x \in rows : TRUE
         IN Applied(dict, r) + SumApplied(dict, rows \ {r})

RecordedRows == SeqToSet(completed_indices) \cup SeqToSet(failed_indices)

\* A run has gone through its rows and returned.
RunFinished ==
    pc = "returned" /\ ~ hist.interrupted /\ rows_to_translate # <<>>

\* C25: total_replacements counts the applied terms of a row once: when a
\* run has finished it is the sum, over the completed and failed rows, of
\* the applied terms of the row (for a run that began afresh, under its
\* dictionary; after resumes, at most what the terminology file applies).
C25_ReplacementsCountedOnce ==
    RunFinished =>
        IF Truthy(checkpoint)
        THEN terminology_stats.total_replacements
                 <= SumApplied(TermPairs, RecordedRows)
        ELSE terminology_stats.total_replacements
                 = SumApplied(terminology_dict, RecordedRows)

\* The failed rows of the snapshot the run resumed from.
RestoredFailed == SeqToSet(Get(checkpoint, "failed_indices", <<>>))

Occurrences(x, sq) == Cardinality({ n \in 1 .. Len(sq) : sq[n] = x })

\* C26: a row recorded as failed is not attempted again: it is recorded
\* once and is not completed; its target cell holds the error text, which
\* keeps it out of the pending rows; and a run resumed from a snapshot that
\* lists it leaves it failed and hands it neither to the substitution nor
\* to translate_text.
C26_FailedRowStaysFailed ==
    /\ \A n \in 1 .. Len(failed_indices) :
           LET r == failed_indices[n] IN
           /\ Occurrences(r, failed_indices) = 1
           /\ ~ InSeq(r, completed_indices)
           /\ ~ EmptyMask(df[r][Lang.target_col])
           /\ IsFailureMarker(df[r][Lang.target_col])
    /\ Resumed =>
           /\ RestoredFailed \cap SeqToSet(rows_to_translate) = {}
           /\ RestoredFailed \cap (hist.substituted \cup hist.requested) = {}
           /\ RestoredFailed \subseteq SeqToSet(failed_indices)

\* A run resumed from a snapshot with a failed row has requested the
\* translation of another row, written the output file and returned.
C26_Witness ==
    /\ Resumed
    /\ RunFinished
    /\ RestoredFailed # {}
    /\ hist.requested # {}
    /\ output_file.state = "written"
    /\ \A r \in RestoredFailed :
           output_file.frame[r][Lang.target_col] = ErrorMsg("APIError")

====
